---- MODULE Spec2Model ----
(***************************************************************************)
(* Model of scripts/extract_names.py: the batch that reads snow/*.json,    *)
(* writes the 36 name indexes indexes/<K>.json and the ranked tag list     *)
(* popular/tag.json.                                                       *)
(*                                                                         *)
(* A Python str is a sequence of characters; a character is a one-token    *)
(* string ("a", " ", or "U+0131" for a character outside ASCII).           *)
(***************************************************************************)
EXTENDS Integers, Sequences, FiniteSets, TLC

VARIABLES
    snow_exists,   \* os.path.exists(SNOW_DIR)
    snow,          \* file name -> document stored under snow/
    pc,            \* position of the __main__ block
    files,         \* load_users: the os.listdir result
    pairs,         \* load_users: the (name, uid) list
    diag,          \* file names reported by "Error processing"/"Error reading"
    buckets,       \* bucket_by_letter: key -> dict
    counter,       \* compute_popular_tags: the Counter, in insertion order
    limit,         \* compute_popular_tags: the limit argument
    popular_tags,  \* compute_popular_tags: the returned list
    indexes,       \* indexes/<K>.json on disk
    tagFile,       \* popular/tag.json on disk
    prev           \* outputs and listing found on disk when the run started

vars == <<snow_exists, snow, pc, files, pairs, diag, buckets, counter, limit,
          popular_tags, indexes, tagFile, prev>>

----------------------------------------------------------------------------
(* Characters and the str methods the script calls.                        *)

ascii_uppercase ==
    <<"A","B","C","D","E","F","G","H","I","J","K","L","M",
      "N","O","P","Q","R","S","T","U","V","W","X","Y","Z">>

ascii_lowercase ==
    <<"a","b","c","d","e","f","g","h","i","j","k","l","m",
      "n","o","p","q","r","s","t","u","v","w","x","y","z">>

DIGITS == <<"0","1","2","3","4","5","6","7","8","9">>

POPULAR_TAG_LIMIT == 200

Range(s) == {s[i] : i \in DOMAIN s}

IndexOf(c, s) == CHOOSE i \in DOMAIN s : s[i] = c

\* str.upper() of one character: a str, since some characters grow
upper_char(c) ==
    IF c \in Range(ascii_lowercase)
        THEN <<ascii_uppercase[IndexOf(c, ascii_lowercase)]>>
    ELSE IF c = "U+0131" THEN <<"I">>          \* dotless i
    ELSE IF c = "U+017F" THEN <<"S">>          \* long s
    ELSE IF c = "U+00DF" THEN <<"S", "S">>     \* sharp s
    ELSE <<c>>

\* str.lower() of one character
lower_char(c) ==
    IF c \in Range(ascii_uppercase)
        THEN ascii_lowercase[IndexOf(c, ascii_uppercase)]
        ELSE c

lower(s) == [i \in DOMAIN s |-> lower_char(s[i])]

isspace(c) == c = " "

RECURSIVE lstrip(_)
lstrip(s) ==
    IF s = <<>> THEN s
    ELSE IF isspace(Head(s)) THEN lstrip(Tail(s)) ELSE s

RECURSIVE rstrip(_)
rstrip(s) ==
    IF s = <<>> THEN s
    ELSE IF isspace(s[Len(s)]) THEN rstrip(SubSeq(s, 1, Len(s) - 1)) ELSE s

strip(s) == rstrip(lstrip(s))

endswith(s, suffix) ==
    /\ Len(s) >= Len(suffix)
    /\ SubSeq(s, Len(s) - Len(suffix) + 1, Len(s)) = suffix

startswith(s, prefix) ==
    /\ Len(s) >= Len(prefix)
    /\ SubSeq(s, 1, Len(prefix)) = prefix

isdigit(s) == s # <<>> /\ \A i \in DOMAIN s : s[i] \in Range(DIGITS)

\* s.split(sep): the pieces between the separators, empty ones included
RECURSIVE split(_, _)
split(s, sep) ==
    IF \A i \in DOMAIN s : s[i] # sep THEN <<s>>
    ELSE LET i == CHOOSE j \in DOMAIN s :
                      s[j] = sep /\ \A k \in 1..(j - 1) : s[k] # sep
         IN  <<SubSeq(s, 1, i - 1)>> \o split(SubSeq(s, i + 1, Len(s)), sep)

\* code point, for the comparison of str values
ord(c) ==
    IF c \in Range(DIGITS) THEN 47 + IndexOf(c, DIGITS)
    ELSE IF c \in Range(ascii_uppercase) THEN 64 + IndexOf(c, ascii_uppercase)
    ELSE IF c \in Range(ascii_lowercase) THEN 96 + IndexOf(c, ascii_lowercase)
    ELSE IF c = " " THEN 32
    ELSE IF c = "#" THEN 35
    ELSE IF c = "," THEN 44
    ELSE IF c = "." THEN 46
    ELSE IF c = "U+00DF" THEN 223
    ELSE IF c = "U+0131" THEN 305
    ELSE IF c = "U+017F" THEN 383
    ELSE 26085                                  \* "U+65E5"

\* a < b on str values
RECURSIVE str_lt(_, _)
str_lt(a, b) ==
    IF b = <<>> THEN FALSE
    ELSE IF a = <<>> THEN TRUE
    ELSE IF Head(a) # Head(b) THEN ord(Head(a)) < ord(Head(b))
    ELSE str_lt(Tail(a), Tail(b))

----------------------------------------------------------------------------
(* JSON values and the documents under snow/.                              *)

Str(s) ==
    [type |-> "str", str |-> s, num |-> 0, items |-> <<>>, members |-> <<>>]
Num(n) ==
    [type |-> "num", str |-> <<>>, num |-> n, items |-> <<>>, members |-> <<>>]
List(xs) ==
    [type |-> "list", str |-> <<>>, num |-> 0, items |-> xs, members |-> <<>>]
\* an object: its <<key, value>> members in document order
Obj(kvs) ==
    [type |-> "object", str |-> <<>>, num |-> 0, items |-> <<>>, members |-> kvs]

Json(v)    == [kind |-> "json", value |-> v]
Invalid    == [kind |-> "invalid", value |-> Num(0)]     \* json.load raises
Unreadable == [kind |-> "unreadable", value |-> Num(0)]  \* open raises
Absent     == [kind |-> "absent", value |-> Num(0)]      \* no such file

k_name == <<"n","a","m","e">>
k_tags == <<"t","a","g","s">>
k_tag1 == <<"t","a","g","1">>
k_TAG2 == <<"T","A","G","2">>
k_tag3 == <<"t","a","g","3">>
k_tag10 == <<"t","a","g","1","0">>
k_tag  == <<"t","a","g">>
k_tagx == <<"t","a","g","x">>

s_Al  == <<"A","l">>
s_al  == <<"a","l">>
s_7b  == <<"7","b">>
s_x   == <<"x">>
s_y   == <<"y">>
s_Foo == <<"F","o","o">>
s_foo == <<"f","o","o">>

\* {"name": "Al", "tags": ["Foo", " x ", 1]}
DocAl == Json(Obj(<< <<k_name, Str(s_Al)>>,
                     <<k_tags, List(<<Str(s_Foo), Str(<<" ","x"," ">>), Num(1)>>)>> >>))
\* {"name": " Al ", "tags": "x, Foo,,"}
DocAlPadded == Json(Obj(<< <<k_name, Str(<<" ","A","l"," ">>)>>,
                           <<k_tags, Str(<<"x",","," ","F","o","o",",",",">>)>> >>))
\* {"name": "al", "tag1": "X", "TAG2": "x", "tag": "y", "tagx": "y", "tag3": 5}
DocLower == Json(Obj(<< <<k_name, Str(s_al)>>, <<k_tag1, Str(<<"X">>)>>,
                        <<k_TAG2, Str(s_x)>>, <<k_tag, Str(s_y)>>,
                        <<k_tagx, Str(s_y)>>, <<k_tag3, Num(5)>> >>))
\* {"name": "7b", "tags": 5, "tag10": "y "}
DocDigit == Json(Obj(<< <<k_name, Str(s_7b)>>, <<k_tags, Num(5)>>,
                        <<k_tag10, Str(<<"y"," ">>)>> >>))
\* {"name": "  ", "tags": ["y"]}
DocBlank == Json(Obj(<< <<k_name, Str(<<" "," ">>)>>,
                        <<k_tags, List(<<Str(s_y)>>)>> >>))
\* {"name": "\u0131a"}  (dotless i)
DocDotless == Json(Obj(<< <<k_name, Str(<<"U+0131","a">>)>> >>))
\* {"name": "\u65e5", "tags": ""}
DocKanji == Json(Obj(<< <<k_name, Str(<<"U+65E5">>)>>, <<k_tags, Str(<<>>)>> >>))
\* {"name": "\u00dfa", "tag1": " "}  (sharp s)
DocSharp == Json(Obj(<< <<k_name, Str(<<"U+00DF","a">>)>>,
                        <<k_tag1, Str(<<" ">>)>> >>))
\* {"name": 5, "tags": ["x"]}
DocNumName == Json(Obj(<< <<k_name, Num(5)>>, <<k_tags, List(<<Str(s_x)>>)>> >>))
\* {"tags": ["y", ""]}
DocNoName == Json(Obj(<< <<k_tags, List(<<Str(s_y), Str(<<>>)>>)>> >>))
\* ["x"]
DocArray == Json(List(<<Str(s_x)>>))

f_1json == <<"1",".","j","s","o","n">>
f_2JSON == <<"2",".","J","S","O","N">>
f_ntxt  == <<"n",".","t","x","t">>

Files == {f_1json, f_2JSON, f_ntxt}

\* the documents each file name takes in the model
Docs(f) ==
    IF f = f_1json
        THEN {DocAl, DocAlPadded, DocLower, DocDigit, DocBlank, DocDotless,
              DocKanji, DocSharp, DocNumName, DocNoName, DocArray, Invalid}
    ELSE IF f = f_2JSON
        THEN {DocAl, Unreadable}
    ELSE {DocAl}

NoFiles == [f \in Files |-> Absent]

----------------------------------------------------------------------------
(* dict, in insertion order: a sequence of <<key, value>> with unique keys *)

dict_has(d, k) == \E i \in DOMAIN d : d[i][1] = k

dict_get(d, k, default) ==
    IF dict_has(d, k) THEN d[CHOOSE i \in DOMAIN d : d[i][1] = k][2]
                      ELSE default

\* dict_set with the first value kept: what `d.setdefault(k, v)` would do
dict_set_keep_first(d, k, v) ==
    IF dict_has(d, k) THEN d ELSE Append(d, <<k, v>>)

\* d[k] = v: a present key keeps its place and takes the new value
dict_set(d, k, v) ==
    IF dict_has(d, k)
        THEN [i \in DOMAIN d |-> IF d[i][1] = k THEN <<k, v>> ELSE d[i]]
        ELSE Append(d, <<k, v>>)

dict_keys(d) == {d[i][1] : i \in DOMAIN d}

RECURSIVE Perms(_)
Perms(S) ==
    IF S = {} THEN {<<>>}
    ELSE UNION {{<<x>> \o p : p \in Perms(S \ {x})} : x \in S}

\* os.listdir(path): the entries, in an order the file system chooses
listdir(dir) == Perms({f \in Files : dir[f] # Absent})

NoFile == [present |-> FALSE, data |-> <<>>]

\* dump on a file opened with "a": the new text follows the old
dump_append(old, obj) == [present |-> TRUE, data |-> old.data \o obj]

\* open(out_path, "w") and json.dump(obj, f): the file holds obj alone
dump(old, obj) == [present |-> TRUE, data |-> obj]

----------------------------------------------------------------------------
(* load_users                                                              *)

\* try_name with str(data.get("name", "")).strip(): a name that is no str
\* is taken in its printed form
try_name_coerce(doc) ==
    IF doc.kind # "json" THEN [raised |-> TRUE, name |-> <<>>]
    ELSE IF doc.value.type # "object" THEN [raised |-> TRUE, name |-> <<>>]
    ELSE LET v == dict_get(doc.value.members, k_name, Str(<<>>))
         IN  IF v.type = "num"
                 THEN [raised |-> FALSE, name |-> <<DIGITS[v.num + 1]>>]
             ELSE [raised |-> FALSE, name |-> strip(v.str)]

\* the try block: open, json.load, data.get("name", "").strip()
try_name(doc) ==
    IF doc.kind # "json" THEN [raised |-> TRUE, name |-> <<>>]
    ELSE IF doc.value.type # "object" THEN [raised |-> TRUE, name |-> <<>>]
    ELSE LET v == dict_get(doc.value.members, k_name, Str(<<>>))
         IN  IF v.type # "str" THEN [raised |-> TRUE, name |-> <<>>]
             ELSE [raised |-> FALSE, name |-> strip(v.str)]

RECURSIVE load_loop(_, _, _)
load_loop(dir, listing, acc) ==
    IF listing = <<>> THEN acc
    ELSE LET fname == Head(listing)
             rest  == Tail(listing)
         IN  IF ~endswith(lower(fname), <<".","j","s","o","n">>)
                 THEN load_loop(dir, rest, acc)
             ELSE LET uid == SubSeq(fname, 1, Len(fname) - 5)
                      r   == try_name(dir[fname])
                  IN  IF r.raised
                          THEN load_loop(dir, rest,
                                   [acc EXCEPT !.diag = @ \cup {<<"processing", fname>>}])
                      ELSE IF r.name # <<>>
                          THEN load_loop(dir, rest,
                                   [acc EXCEPT !.pairs = Append(@, <<r.name, uid>>)])
                      ELSE load_loop(dir, rest, acc)

load_users(exists, dir, listing) ==
    IF ~exists THEN [pairs |-> <<>>, diag |-> {}]
    ELSE load_loop(dir, listing, [pairs |-> <<>>, diag |-> {}])

----------------------------------------------------------------------------
(* bucket_by_letter                                                        *)

BucketKeys == Range(ascii_uppercase) \cup Range(DIGITS)

\* first in buckets: first is a str, the keys are single characters
in_buckets(first) == Len(first) = 1 /\ first[1] \in BucketKeys

RECURSIVE bucket_loop(_, _)
bucket_loop(ps, bkts) ==
    IF ps = <<>> THEN bkts
    ELSE LET name == Head(ps)[1]
             uid  == Head(ps)[2]
         IN  IF name = <<>> THEN bucket_loop(Tail(ps), bkts)
             ELSE LET first == upper_char(name[1])
                  IN  IF in_buckets(first)
                          THEN bucket_loop(Tail(ps),
                                   [bkts EXCEPT ![first[1]] = dict_set(@, name, uid)])
                          ELSE bucket_loop(Tail(ps), bkts)

bucket_by_letter(ps) == bucket_loop(ps, [L \in BucketKeys |-> <<>>])

----------------------------------------------------------------------------
(* write_indexes, write_popular_tags                                       *)

\* write_indexes that writes a file only for a bucket that has names
write_indexes_nonempty_only(bkts, disk) ==
    [letter \in DOMAIN disk |->
        IF letter \in BucketKeys /\ letter \in DOMAIN bkts /\ bkts[letter] # <<>>
            THEN [present |-> TRUE, data |-> bkts[letter]]
            ELSE disk[letter]]

RECURSIVE dict_update(_, _)
dict_update(d, kvs) ==
    IF kvs = <<>> THEN d
    ELSE dict_update(dict_set(d, Head(kvs)[1], Head(kvs)[2]), Tail(kvs))

\* write_indexes that loads the file it finds and updates it
write_indexes_merge(bkts, disk) ==
    [letter \in DOMAIN disk |->
        IF letter \in BucketKeys
            THEN [present |-> TRUE,
                  data |-> dict_update(disk[letter].data,
                               IF letter \in DOMAIN bkts THEN bkts[letter] ELSE <<>>)]
            ELSE disk[letter]]

write_indexes(bkts, disk) ==
    [letter \in DOMAIN disk |->
        IF letter \in BucketKeys
            THEN dump(disk[letter],
                      IF letter \in DOMAIN bkts THEN bkts[letter] ELSE <<>>)
            ELSE disk[letter]]

write_popular_tags(tags, file) == dump(file, tags)

----------------------------------------------------------------------------
(* compute_popular_tags                                                    *)

\* items.extend(t for t in tags_field if isinstance(t, str))
RECURSIVE str_items(_)
str_items(xs) ==
    IF xs = <<>> THEN <<>>
    ELSE IF Head(xs).type = "str" THEN <<Head(xs).str>> \o str_items(Tail(xs))
    ELSE str_items(Tail(xs))

\* kl.startswith('tag') and kl[3:].isdigit()
is_tag_key(k) ==
    LET kl == lower(k)
    IN  startswith(kl, <<"t","a","g">>) /\ isdigit(SubSeq(kl, 4, Len(kl)))

\* for k, v in data.items(): the values of the string fields tag<digits>
RECURSIVE key_items(_)
key_items(kvs) ==
    IF kvs = <<>> THEN <<>>
    ELSE LET k == Head(kvs)[1]
             v == Head(kvs)[2]
         IN  IF v.type # "str" THEN key_items(Tail(kvs))
             ELSE IF is_tag_key(k) THEN <<v.str>> \o key_items(Tail(kvs))
             ELSE key_items(Tail(kvs))

\* the list `items` of one record
tag_items(data) ==
    LET tags_field == dict_get(data.members, k_tags, List(<<>>))
        from_field ==
            IF tags_field.type = "list" THEN str_items(tags_field.items)
            ELSE IF tags_field.type = "str"
                THEN LET ps == split(tags_field.str, ",")
                     IN  [i \in DOMAIN ps |-> strip(ps[i])]
            ELSE <<>>
    IN  from_field \o key_items(data.members)

\* norm_tag without .lower()
norm_tag_no_lower(t) == strip(t)

\* t_norm = t.strip().lower()
norm_tag(t) == lower(strip(t))

\* for t in items: if t_norm: counter[t_norm] += 1
RECURSIVE count_items(_, _)
count_items(items, cnt) ==
    IF items = <<>> THEN cnt
    ELSE LET t_norm == norm_tag(Head(items))
         IN  IF t_norm # <<>>
                 THEN count_items(Tail(items),
                          dict_set(cnt, t_norm, dict_get(cnt, t_norm, 0) + 1))
                 ELSE count_items(Tail(items), cnt)

\* the loop over the files; data.get on a value that is no object raises
\* outside the try block and ends the function
RECURSIVE tag_loop(_, _, _)
tag_loop(dir, listing, acc) ==
    IF listing = <<>> THEN acc
    ELSE LET fname == Head(listing)
             doc   == dir[fname]
         IN  IF doc.kind # "json"
                 THEN tag_loop(dir, Tail(listing),
                          [acc EXCEPT !.diag = @ \cup {<<"reading", fname>>}])
             ELSE IF doc.value.type # "object"
                 THEN [acc EXCEPT !.raised = TRUE]
             ELSE tag_loop(dir, Tail(listing),
                      [acc EXCEPT !.counter = count_items(tag_items(doc.value), @)])

\* files = [f for f in os.listdir(path) if f.lower().endswith('.json')]
json_files(listing) ==
    SelectSeq(listing, LAMBDA f : endswith(lower(f), <<".","j","s","o","n">>))

\* key_lt for key = lambda kv: -kv[1]
key_lt_count_only(a, b) == a[2] > b[2]

\* key(a) < key(b) for key = lambda kv: (-kv[1], kv[0])
key_lt(a, b) == a[2] > b[2] \/ (a[2] = b[2] /\ str_lt(a[1], b[1]))

\* sorted(): stable, an element goes behind those whose key is not greater
RECURSIVE sorted(_)
sorted(xs) ==
    IF xs = <<>> THEN <<>>
    ELSE LET s    == sorted(SubSeq(xs, 1, Len(xs) - 1))
             x    == xs[Len(xs)]
             keep == Cardinality({i \in DOMAIN s : ~key_lt(x, s[i])})
             \* the elements not greater than x form a prefix of s
         IN  SubSeq(s, 1, keep) \o <<x>> \o SubSeq(s, keep + 1, Len(s))

None ==
    [type |-> "none", str |-> <<>>, num |-> 0, items |-> <<>>, members |-> <<>>]

RECURSIVE digits_value(_)
digits_value(s) ==
    IF s = <<>> THEN 0
    ELSE 10 * digits_value(SubSeq(s, 1, Len(s) - 1)) + (IndexOf(s[Len(s)], DIGITS) - 1)

\* int(limit): an int is itself, a str of digits (signed, padded) is parsed,
\* anything else raises ValueError or TypeError
int(v) ==
    IF v.type = "num" THEN [raised |-> FALSE, value |-> v.num]
    ELSE IF v.type = "str"
        THEN LET s == strip(v.str)
             IN  IF isdigit(s) THEN [raised |-> FALSE, value |-> digits_value(s)]
                 ELSE IF s # <<>> /\ Head(s) = "-" /\ isdigit(Tail(s))
                     THEN [raised |-> FALSE, value |-> 0 - digits_value(Tail(s))]
                 ELSE [raised |-> TRUE, value |-> 0]
    ELSE [raised |-> TRUE, value |-> 0]

max(a, b) == IF a >= b THEN a ELSE b

\* xs[:n]
slice_to(xs, n) ==
    IF n >= 0 THEN SubSeq(xs, 1, IF n < Len(xs) THEN n ELSE Len(xs))
    ELSE SubSeq(xs, 1, max(0, Len(xs) + n))

\* top_slice without the clamp: items_sorted[: int(limit)]
top_slice_noclamp(items_sorted, n) == slice_to(items_sorted, n)

\* items_sorted[: max(0, int(limit))]
top_slice(items_sorted, n) == slice_to(items_sorted, max(0, n))

\* the end of compute_popular_tags, from `if not counter`
rank(cnt, lim) ==
    IF cnt = <<>> THEN [raised |-> FALSE, top |-> <<>>]
    ELSE LET items_sorted == sorted(cnt)
             n            == int(lim)
         IN  IF n.raised THEN [raised |-> TRUE, top |-> <<>>]
             ELSE LET cut == top_slice(items_sorted, n.value)
                  IN  [raised |-> FALSE, top |-> [i \in DOMAIN cut |-> cut[i][1]]]

compute_popular_tags(exists, dir, listing, lim) ==
    IF ~exists THEN [raised |-> FALSE, counter |-> <<>>, diag |-> {}, top |-> <<>>]
    ELSE LET acc == tag_loop(dir, json_files(listing),
                        [raised |-> FALSE, counter |-> <<>>, diag |-> {}])
         IN  IF acc.raised
                 THEN [raised |-> TRUE, counter |-> <<>>, diag |-> acc.diag,
                       top |-> <<>>]
             ELSE LET r == rank(acc.counter, lim)
                  IN  [raised |-> r.raised, counter |-> acc.counter,
                       diag |-> acc.diag, top |-> r.top]

----------------------------------------------------------------------------
(* The __main__ block, one action per call, and the record store between   *)
(* two runs.                                                               *)

Stores ==
    {d \in [Files -> UNION {Docs(f) : f \in Files} \cup {Absent}] :
        \A f \in Files : d[f] \in Docs(f) \cup {Absent}}

NoIndexes == [letter \in BucketKeys |-> NoFile]

NoBuckets == [letter \in BucketKeys |-> <<>>]

NoPrev == [same |-> FALSE, files |-> <<>>, indexes |-> NoIndexes,
           tagFile |-> NoFile]

Init ==
    /\ snow_exists \in BOOLEAN
    /\ snow \in Stores
    /\ ~snow_exists => snow = NoFiles
    /\ pc = "start"
    /\ files = <<>>
    /\ pairs = <<>>
    /\ diag = {}
    /\ buckets = NoBuckets
    /\ counter = <<>>
    /\ limit = Num(POPULAR_TAG_LIMIT)
    /\ popular_tags = <<>>
    /\ indexes = NoIndexes
    /\ tagFile = NoFile
    /\ prev = NoPrev

Finished == pc \in {"done", "aborted"}

\* pairs = load_users(SNOW_DIR); a run starts on the outputs of the last one
LoadUsers ==
    /\ pc = "start" \/ Finished
    /\ \E listing \in (IF snow_exists THEN listdir(snow) ELSE {<<>>}) :
          LET r == load_users(snow_exists, snow, listing)
          IN  /\ files' = listing
              /\ pairs' = r.pairs
              /\ diag' = r.diag
    /\ prev' = [same |-> Finished, files |-> files, indexes |-> indexes,
                tagFile |-> tagFile]
    /\ buckets' = NoBuckets
    /\ counter' = <<>>
    /\ popular_tags' = <<>>
    /\ pc' = "loaded"
    /\ UNCHANGED <<snow_exists, snow, limit, indexes, tagFile>>

\* buckets = bucket_by_letter(pairs)
BucketByLetter ==
    /\ pc = "loaded"
    /\ buckets' = bucket_by_letter(pairs)
    /\ pc' = "bucketed"
    /\ UNCHANGED <<snow_exists, snow, files, pairs, diag, counter, limit,
                   popular_tags, indexes, tagFile, prev>>

\* write_indexes(buckets)
WriteIndexes ==
    /\ pc = "bucketed"
    /\ indexes' = write_indexes(buckets, indexes)
    /\ pc' = "indexed"
    /\ UNCHANGED <<snow_exists, snow, files, pairs, diag, buckets, counter,
                   limit, popular_tags, tagFile, prev>>

\* popular_tags = compute_popular_tags(SNOW_DIR, POPULAR_TAG_LIMIT); an
\* exception that leaves the function ends the process
ComputePopularTags ==
    /\ pc = "indexed"
    /\ \E listing \in (IF snow_exists THEN listdir(snow) ELSE {<<>>}) :
          LET r == compute_popular_tags(snow_exists, snow, listing, limit)
          IN  /\ diag' = diag \cup r.diag
              /\ counter' = r.counter
              /\ popular_tags' = r.top
              /\ pc' = IF r.raised THEN "aborted" ELSE "tagged"
    /\ UNCHANGED <<snow_exists, snow, files, pairs, buckets, limit, indexes,
                   tagFile, prev>>

\* write_popular_tags(popular_tags)
WritePopularTags ==
    /\ pc = "tagged"
    /\ tagFile' = write_popular_tags(popular_tags, tagFile)
    /\ pc' = "done"
    /\ UNCHANGED <<snow_exists, snow, files, pairs, diag, buckets, counter,
                   limit, popular_tags, indexes, prev>>

\* between two runs the process is gone, and its variables with it
NextProcess ==
    /\ Finished
    /\ pc' = "start"
    /\ files' = <<>>
    /\ pairs' = <<>>
    /\ diag' = {}
    /\ buckets' = NoBuckets
    /\ counter' = <<>>
    /\ popular_tags' = <<>>
    /\ prev' = NoPrev
    /\ UNCHANGED <<limit, indexes, tagFile>>

\* snow/<f> is written or replaced before the next run
PutRecord ==
    /\ snow_exists
    /\ \E f \in Files : \E d \in Docs(f) :
          /\ snow[f] # d
          /\ snow' = [snow EXCEPT ![f] = d]
    /\ UNCHANGED snow_exists
    /\ NextProcess

\* snow/<f> is deleted before the next run
DeleteRecord ==
    /\ \E f \in Files :
          /\ snow[f] # Absent
          /\ snow' = [snow EXCEPT ![f] = Absent]
    /\ UNCHANGED snow_exists
    /\ NextProcess

\* snow/ is removed with all it holds
RemoveDir ==
    /\ snow_exists
    /\ snow_exists' = FALSE
    /\ snow' = NoFiles
    /\ NextProcess

\* snow/ is created, empty
MakeDir ==
    /\ ~snow_exists
    /\ snow_exists' = TRUE
    /\ snow' = NoFiles
    /\ NextProcess

Next ==
    \/ LoadUsers
    \/ BucketByLetter
    \/ WriteIndexes
    \/ ComputePopularTags
    \/ WritePopularTags
    \/ PutRecord
    \/ DeleteRecord
    \/ RemoveDir
    \/ MakeDir

Spec == Init /\ [][Next]_vars

----------------------------------------------------------------------------
(* The ranking at the end of compute_popular_tags, on any Counter and any  *)
(* limit argument.                                                         *)

MaxCount == 2

TagPool == {s_x, <<"x","y">>, s_foo}

\* the Counters over TagPool: every insertion order, counts 1..MaxCount
Counters ==
    UNION {UNION {{[i \in DOMAIN p |-> <<p[i], c[p[i]]>>] :
                       c \in [S -> 1..MaxCount]} : p \in Perms(S)} :
           S \in SUBSET TagPool}

Limits ==
    {Num(0 - 1), Num(0), Num(1), Num(2), Num(POPULAR_TAG_LIMIT),
     Str(<<" ","2">>), Str(<<"a","b","c">>), None}

InitRank ==
    /\ snow_exists = FALSE
    /\ snow = NoFiles
    /\ pc = "rank"
    /\ files = <<>>
    /\ pairs = <<>>
    /\ diag = {}
    /\ buckets = NoBuckets
    /\ counter \in Counters
    /\ limit \in Limits
    /\ popular_tags = <<>>
    /\ indexes = NoIndexes
    /\ tagFile = NoFile
    /\ prev = NoPrev

\* from `if not counter` to `return top`
RankTags ==
    /\ pc = "rank"
    /\ LET r == rank(counter, limit)
       IN  /\ popular_tags' = r.top
           /\ pc' = IF r.raised THEN "raised" ELSE "ranked"
    /\ UNCHANGED <<snow_exists, snow, files, pairs, diag, buckets, counter,
                   limit, indexes, tagFile, prev>>

NextRank == RankTags

SpecRank == InitRank /\ [][NextRank]_vars

----------------------------------------------------------------------------
(* What the properties below speak of, stated without the operators above.  *)

\* the file names of the store that name a record, and the id each gives
Records == {f_1json, f_2JSON}

RecordId(f) == IF f = f_1json THEN <<"1">> ELSE <<"2">>

Stored == {f \in Records : snow_exists /\ snow[f] # Absent}

\* a record that is read and parsed as an object
Readable(f) == snow[f].kind = "json" /\ snow[f].value.type = "object"

HasMember(f, key) == \E m \in Range(snow[f].value.members) : m[1] = key

Member(f, key) ==
    (CHOOSE m \in Range(snow[f].value.members) : m[1] = key)[2]

\* s without the blanks at its ends
Trimmed(s) ==
    LET inked == {i \in DOMAIN s : s[i] # " "}
    IN  IF inked = {} THEN <<>>
        ELSE SubSeq(s, CHOOSE i \in inked : \A j \in inked : i <= j,
                       CHOOSE i \in inked : \A j \in inked : i >= j)

LowerCased(s) == [i \in DOMAIN s |-> lower_char(s[i])]

\* key is 'tag' in any case followed by one or more digits
TagKey(key) ==
    /\ Len(key) >= 4
    /\ LowerCased(SubSeq(key, 1, 3)) = <<"t","a","g">>
    /\ \A i \in 4..Len(key) : key[i] \in Range(DIGITS)

\* the tag candidates of the store, each with the place it stands at: a
\* string field tag<digits>, a string element of the list `tags`, or a piece
\* of the string `tags` between two commas (or an end of the string)
Candidates ==
    UNION {
        IF ~Readable(f) THEN {}
        ELSE LET v == snow[f].value
                 fromKeys ==
                     {<<f, "key", j, v.members[j][2].str>> :
                         j \in {j \in DOMAIN v.members :
                                   /\ v.members[j][2].type = "str"
                                   /\ TagKey(v.members[j][1])}}
                 field == IF HasMember(f, k_tags) THEN Member(f, k_tags) ELSE Num(0)
                 fromList ==
                     IF field.type # "list" THEN {}
                     ELSE {<<f, "list", j, field.items[j].str>> :
                              j \in {j \in DOMAIN field.items :
                                        field.items[j].type = "str"}}
                 fromString ==
                     IF field.type # "str" THEN {}
                     ELSE LET commas == {i \in DOMAIN field.str : field.str[i] = ","}
                              cuts   == commas \cup {0, Len(field.str) + 1}
                          IN  {<<f, "piece", c[1], SubSeq(field.str, c[1] + 1, c[2] - 1)>> :
                                  c \in {c \in cuts \X cuts :
                                            /\ c[1] < c[2]
                                            /\ \A m \in commas : ~(c[1] < m /\ m < c[2])}}
             IN  fromKeys \cup fromList \cup fromString
        : f \in Stored}

Normal(s) == LowerCased(Trimmed(s))

ExpectedCount(tag) ==
    Cardinality({c \in Candidates : Normal(c[4]) = tag})

ExpectedTags == {Normal(c[4]) : c \in Candidates} \ {<<>>}

Entries(file) == Range(file.data)

EmptyOutput == [present |-> TRUE, data |-> <<>>]

----------------------------------------------------------------------------
(* C1 -- bucket_by_letter places a pair in bucket K exactly when the        *)
(* uppercased first character of its name is K; a name whose first          *)
(* character is outside A-Z, a-z, 0-9 is in no bucket; no name is in a      *)
(* bucket other than the one its uppercased first character names.          *)
C1_BucketByFirstChar ==
    pc = "bucketed" =>
        /\ \A i \in DOMAIN pairs : \A K \in BucketKeys :
              dict_has(buckets[K], pairs[i][1])
                  <=> upper_char(pairs[i][1][1]) = <<K>>
        /\ \A K \in BucketKeys : \A name \in dict_keys(buckets[K]) :
              /\ \E i \in DOMAIN pairs : pairs[i][1] = name
              /\ name[1] \in Range(ascii_uppercase) \cup Range(ascii_lowercase)
                                \cup Range(DIGITS)

----------------------------------------------------------------------------
(* C2 -- once write_indexes has run, all 36 index files exist; a run on a   *)
(* store with no record, or with no snow/ directory, does not abort and     *)
(* ends with 36 empty mappings and an empty tag list.                       *)
C2_AllBucketsWritten ==
    /\ pc \in {"indexed", "tagged", "done", "aborted"} =>
          \A K \in BucketKeys : indexes[K].present
    /\ Stored = {} =>
          /\ pc # "aborted"
          /\ pc = "done" =>
                /\ \A K \in BucketKeys : indexes[K] = EmptyOutput
                /\ tagFile = EmptyOutput

C2_Witness ==
    /\ pc = "done"
    /\ ~snow_exists
    /\ \E K \in BucketKeys : prev.indexes[K].data # <<>>
    /\ prev.tagFile.data # <<>>

----------------------------------------------------------------------------
(* C3 -- in the list the ranking returns, of two tags the one with the      *)
(* higher count comes first, and of two tags with equal counts the          *)
(* alphabetically earlier one; no tag left out ranks above a tag included.  *)
Outranks(t, u) ==
    \/ dict_get(counter, t, 0) > dict_get(counter, u, 0)
    \/ dict_get(counter, t, 0) = dict_get(counter, u, 0) /\ str_lt(t, u)

C3_RankOrder ==
    pc = "ranked" =>
        /\ \A i \in DOMAIN popular_tags : \A j \in DOMAIN popular_tags :
              i < j => Outranks(popular_tags[i], popular_tags[j])
        /\ \A t \in dict_keys(counter) \ Range(popular_tags) :
              \A u \in Range(popular_tags) : ~Outranks(t, u)

C3_Witness ==
    /\ pc = "ranked"
    /\ Len(popular_tags) = 2
    /\ Len(counter) = 3
    /\ dict_get(counter, popular_tags[1], 0) = dict_get(counter, popular_tags[2], 0)
    /\ counter[1][1] \notin Range(popular_tags)
    /\ counter[2][1] = popular_tags[2]

----------------------------------------------------------------------------
(* C4 -- when the aggregation returns, the count of a tag is the number of  *)
(* candidates, over all readable records, whose trimmed lower-cased form    *)
(* is that tag; empty forms count for nothing; the name of a record plays   *)
(* no part.                                                                 *)
C4_TagCounts ==
    pc \in {"tagged", "done"} =>
        /\ dict_keys(counter) = ExpectedTags
        /\ \A tag \in ExpectedTags : dict_get(counter, tag, 0) = ExpectedCount(tag)

C4_Witness ==
    /\ pc = "tagged"
    /\ snow[f_1json] = DocLower
    /\ snow[f_2JSON] = DocAl
    /\ dict_get(counter, s_x, 0) = 3
    /\ dict_get(counter, s_foo, 0) = 1

----------------------------------------------------------------------------
(* C5 -- as claimed: a second run on the same store leaves the same         *)
(* outputs as the first, whatever the order of the two listings.            *)
C5_IdempotentAnyOrder ==
    (Finished /\ prev.same) =>
        /\ indexes = prev.indexes
        /\ tagFile = prev.tagFile

(* C5 -- as amended: a second run on the same store leaves the same tag     *)
(* list as the first, and the same 36 mappings in the same order when the   *)
(* records are listed in the same order in both runs.                       *)
C5_IdempotentSameOrder ==
    (Finished /\ prev.same) =>
        /\ tagFile = prev.tagFile
        /\ SelectSeq(files, LAMBDA f : f \in Records)
              = SelectSeq(prev.files, LAMBDA f : f \in Records)
                 => indexes = prev.indexes

C5_Witness ==
    /\ pc = "done"
    /\ prev.same
    /\ files = prev.files
    /\ Len(pairs) = 2
    /\ pairs[1][1] = pairs[2][1]
    /\ Len(tagFile.data) >= 2

----------------------------------------------------------------------------
(* C6 -- a record that is unreadable, not JSON, or JSON but no object is    *)
(* skipped with a diagnostic by both passes: it gives no name and no tag,   *)
(* the other records are processed, and the run is not aborted.             *)
Unparsed == {f \in Stored : ~Readable(f)}

C6_BadRecordsSkipped ==
    /\ pc # "aborted"
    /\ pc = "loaded" =>
          /\ \A f \in Unparsed :
                /\ <<"processing", f>> \in diag
                /\ \A i \in DOMAIN pairs : pairs[i][2] # RecordId(f)
          /\ \A f \in Stored \ Unparsed :
                (HasMember(f, k_name) /\ Member(f, k_name) = Str(s_Al))
                    => \E i \in DOMAIN pairs : pairs[i] = <<s_Al, RecordId(f)>>
    /\ pc = "tagged" =>
          /\ \A f \in Unparsed : <<"reading", f>> \in diag
          /\ \A tag \in ExpectedTags : dict_get(counter, tag, 0) = ExpectedCount(tag)

----------------------------------------------------------------------------
(* C7 -- after a completed run the 36 index files and the tag file are what *)
(* a run on the present store alone, started on an empty disk, writes: no   *)
(* entry of an earlier run is left in them.                                 *)
C7_OutputsReflectCurrentStore ==
    pc = "done" =>
        /\ \A K \in BucketKeys : \A e \in Entries(indexes[K]) :
              \E f \in Stored :
                  /\ Readable(f)
                  /\ HasMember(f, k_name)
                  /\ Member(f, k_name).type = "str"
                  /\ Trimmed(Member(f, k_name).str) = e[1]
                  /\ RecordId(f) = e[2]
        /\ Entries(tagFile) \subseteq ExpectedTags
        /\ indexes = write_indexes(
                         bucket_by_letter(load_users(snow_exists, snow, files).pairs),
                         NoIndexes)
        /\ tagFile = write_popular_tags(
                         compute_popular_tags(snow_exists, snow, files, limit).top,
                         NoFile)

C7_Witness ==
    /\ pc = "done"
    /\ ~prev.same
    /\ \E K \in BucketKeys :
          /\ Entries(indexes[K]) # {}
          /\ Entries(prev.indexes[K]) \ Entries(indexes[K]) # {}
    /\ Entries(tagFile) # {}
    /\ Entries(prev.tagFile) \ Entries(tagFile) # {}

----------------------------------------------------------------------------
(* C8 -- as claimed: for every Counter and every limit the ranking returns, *)
(* it never fails, and the list is no longer than the limit clamped to 0    *)
(* or more nor than the number of distinct tags.                            *)
C8_LimitNeverFails ==
    /\ pc # "raised"
    /\ pc = "ranked" =>
          /\ Len(popular_tags) <= Len(counter)
          /\ limit.type = "num" => Len(popular_tags) <= max(0, limit.num)

(* C8 -- as amended: with a limit int() converts, the list is no longer     *)
(* than that number clamped to 0 or more nor than the number of distinct    *)
(* tags; with a limit int() does not convert the call raises when a tag     *)
(* was counted and returns the empty list when none was.                    *)
C8_LengthBound ==
    /\ pc = "ranked" =>
          /\ Len(popular_tags) <= Len(counter)
          /\ limit.type = "num" => Len(popular_tags) <= max(0, limit.num)
          /\ limit = Str(<<" ","2">>) => Len(popular_tags) <= 2
          /\ limit \in {Str(<<"a","b","c">>), None} =>
                counter = <<>> /\ popular_tags = <<>>
    /\ pc = "raised" =>
          /\ limit \in {Str(<<"a","b","c">>), None}
          /\ counter # <<>>

C8_Witness ==
    /\ pc = "ranked"
    /\ limit = Num(0 - 1)
    /\ Len(counter) >= 2
    /\ popular_tags = <<>>

----------------------------------------------------------------------------
(* C9 -- of several pairs with one name, the bucket keeps the id of the one *)
(* processed last; a bucket has one entry for a name; names that differ in  *)
(* letter case only are different keys of one bucket.                       *)
C9_LastWriteWins ==
    pc = "bucketed" =>
        \A i \in DOMAIN pairs : \A K \in BucketKeys :
            upper_char(pairs[i][1][1]) = <<K>> =>
                LET name == pairs[i][1]
                    same == {j \in DOMAIN pairs : pairs[j][1] = name}
                    last == CHOOSE j \in same : \A k \in same : k <= j
                IN  /\ Cardinality({e \in DOMAIN buckets[K] :
                                       buckets[K][e][1] = name}) = 1
                    /\ <<name, pairs[last][2]>> \in Range(buckets[K])
                    /\ \A j \in DOMAIN pairs :
                          (LowerCased(pairs[j][1]) = LowerCased(name)
                              /\ upper_char(pairs[j][1][1]) = <<K>>)
                              => pairs[j][1] \in dict_keys(buckets[K])

C9_Witness ==
    /\ pc = "bucketed"
    /\ Len(pairs) = 2
    /\ pairs[1][1] = pairs[2][1]
    /\ pairs[1][2] # pairs[2][2]
    /\ \E K \in BucketKeys : buckets[K] = << <<pairs[2][1], pairs[2][2]>> >>

----------------------------------------------------------------------------
(* C10 -- as claimed: a readable record whose name is no string is not a    *)
(* failure and gives a pair under the printed form of the value.            *)
PrintedForm(v) == IF v.type = "num" THEN <<DIGITS[v.num + 1]>> ELSE v.str

NameKind(f) ==
    IF ~Readable(f) THEN "unparsed"
    ELSE IF ~HasMember(f, k_name) THEN "missing"
    ELSE IF Member(f, k_name).type # "str" THEN "not a string"
    ELSE IF Trimmed(Member(f, k_name).str) = <<>> THEN "blank"
    ELSE "named"

C10_NameCoerced ==
    pc = "loaded" =>
        \A f \in Stored :
            NameKind(f) = "not a string" =>
                /\ <<"processing", f>> \notin diag
                /\ \E i \in DOMAIN pairs :
                      pairs[i] = <<PrintedForm(Member(f, k_name)), RecordId(f)>>

(* C10 -- as amended: the loader does not coerce. A record whose name is a  *)
(* string gives one pair under the trimmed name, or none and no diagnostic  *)
(* when that is empty or the field is missing; a record whose name is no    *)
(* string is reported as a failure and gives no pair.                       *)
C10_NameNotCoerced ==
    pc = "loaded" =>
        \A f \in Stored :
            LET mine == {i \in DOMAIN pairs : pairs[i][2] = RecordId(f)}
            IN  /\ NameKind(f) = "named" =>
                      /\ Cardinality(mine) = 1
                      /\ \A i \in mine :
                            pairs[i][1] = Trimmed(Member(f, k_name).str)
                      /\ <<"processing", f>> \notin diag
                /\ NameKind(f) \in {"missing", "blank"} =>
                      mine = {} /\ <<"processing", f>> \notin diag
                /\ NameKind(f) \in {"not a string", "unparsed"} =>
                      mine = {} /\ <<"processing", f>> \in diag

C10_Witness ==
    /\ pc = "loaded"
    /\ snow[f_1json] = DocNumName
    /\ <<"processing", f_1json>> \in diag
    /\ pairs = << <<s_Al, <<"2">> >> >>

====
